---- MODULE Spec2Model ----
(***************************************************************************)
(* Model of fix_envs.py: the workflow env-block normaliser                 *)
(* (normalize_env and its helpers), the document processor (process_one),  *)
(* the batch sweep of main(), and the two git command chains               *)
(* (switch_hbb_common_submodule, update_and_stage_submodule_pointer).      *)
(*                                                                         *)
(* Text is modelled character by character: a line is a sequence of        *)
(* one-character strings, a document is a sequence of lines.               *)
(***************************************************************************)
EXTENDS Integers, Sequences, FiniteSets, TLC

(***************************************************************************)
(* Character classes of the regular expressions used by the program.       *)
(***************************************************************************)
\* the whitespace characters (\s, str.strip) that occur in the modelled texts
SpaceChars == {" ", "\t"}

KeyStartChars ==
  {"A","B","C","D","E","F","G","H","I","J","K","L","M","N","O","P","Q","R",
   "S","T","U","V","W","X","Y","Z",
   "a","b","c","d","e","f","g","h","i","j","k","l","m","n","o","p","q","r",
   "s","t","u","v","w","x","y","z",
   "0","1","2","3","4","5","6","7","8","9","_"}

KeyChars == KeyStartChars \cup {"-"}

(***************************************************************************)
(* String primitives (str.startswith, str.lstrip, str.strip).              *)
(***************************************************************************)
StartsWith(s, p) == Len(s) >= Len(p) /\ SubSeq(s, 1, Len(p)) = p

Tail_(s, i) == SubSeq(s, i, Len(s))

RECURSIVE SkipSpaces(_, _)
\* first index >= i of s that does not hold a whitespace character (Len(s)+1 if none)
SkipSpaces(s, i) ==
  IF i <= Len(s) /\ s[i] \in SpaceChars THEN SkipSpaces(s, i + 1) ELSE i

RECURSIVE SkipKeyChars(_, _)
SkipKeyChars(s, i) ==
  IF i <= Len(s) /\ s[i] \in KeyChars THEN SkipKeyChars(s, i + 1) ELSE i

RECURSIVE RStripLen(_, _)
\* length of s[1..n] once trailing whitespace is removed
RStripLen(s, n) ==
  IF n >= 1 /\ s[n] \in SpaceChars THEN RStripLen(s, n - 1) ELSE n

LStrip(s) == Tail_(s, SkipSpaces(s, 1))

Strip(s) == LET t == LStrip(s) IN SubSeq(t, 1, RStripLen(t, Len(t)))

IsBlankLine(l) == Strip(l) = <<>>

IsCommentLine(l) == StartsWith(LStrip(l), <<"#">>)

IsIndented(l) == StartsWith(l, <<" ">>) \/ StartsWith(l, <<"\t">>)

(***************************************************************************)
(* Program constants.                                                      *)
(***************************************************************************)
ENV_HDR == <<"e","n","v",":">>

NAME_PFX == <<"n","a","m","e",":">>

K_PUB_KEY == <<"P","U","B","_","K","E","Y">>

K_SERVERS == <<"S","E","R","V","E","R","S">>

K_API_SERVERS == <<"A","P","I","_">> \o K_SERVERS

REQ ==
  << [k |-> K_PUB_KEY,
      v |-> <<"$","{","{"," ","s","e","c","r","e","t","s",".">> \o K_PUB_KEY \o <<" ","}","}">>],
     [k |-> K_SERVERS,
      v |-> <<"$","{","{"," ","v","a","r","s",".">> \o K_SERVERS \o <<" ","}","}">>],
     [k |-> K_API_SERVERS,
      v |-> <<"$","{","{"," ","v","a","r","s",".">> \o K_API_SERVERS \o <<" ","}","}">>] >>

\* parse_kv: optional whitespace, a key (one key-start character followed by
\* key characters), optional whitespace, a colon, optional whitespace, and the
\* rest of the line as the value.
NoMatch == [ok |-> FALSE, k |-> <<>>, v |-> <<>>]

parse_kv(line) ==
  LET i == SkipSpaces(line, 1)
  IN IF i > Len(line) \/ line[i] \notin KeyStartChars THEN NoMatch
     ELSE LET j == SkipKeyChars(line, i + 1)
              c == SkipSpaces(line, j)
          IN IF c > Len(line) \/ line[c] # ":" THEN NoMatch
             ELSE [ok |-> TRUE,
                   k  |-> SubSeq(line, i, j - 1),
                   v  |-> Tail_(line, SkipSpaces(line, c + 1))]

\* f"  {k}: {v}"
FmtKV(k, v) == <<" ", " ">> \o k \o <<":", " ">> \o v

(***************************************************************************)
(* env_block_bounds: index of the first line after the block whose header  *)
(* is at env_idx (Len(lines)+1 when the block runs to the end).            *)
(***************************************************************************)
RECURSIVE ScanBlock(_, _)
ScanBlock(lines, i) ==
  IF i <= Len(lines)
     /\ (IsIndented(lines[i]) \/ IsBlankLine(lines[i]) \/ IsCommentLine(lines[i]))
  THEN ScanBlock(lines, i + 1)
  ELSE i

env_block_bounds(lines, env_idx) == ScanBlock(lines, env_idx + 1)

(***************************************************************************)
(* normalize_env                                                           *)
(***************************************************************************)
RECURSIVE FindEnv(_, _)
\* index of the first line that starts with "env:", 0 if there is none
FindEnv(lines, i) ==
  IF i > Len(lines) THEN 0
  ELSE IF StartsWith(lines[i], ENV_HDR) THEN i
  ELSE FindEnv(lines, i + 1)

\* FindInsertPos with the block put before the name: line instead of after it
FindInsertPos_BeforeName(lines, i) ==
  LET names == {n \in i..Len(lines) : StartsWith(lines[n], NAME_PFX)}
  IN IF names = {} THEN 0
     ELSE (CHOOSE n \in names : \A m \in names : n <= m) - 1

RECURSIVE FindInsertPos(_, _)
\* number of lines kept before the inserted block: up to and including the
\* first line that starts with "name:", 0 if there is none
FindInsertPos(lines, i) ==
  IF i > Len(lines) THEN 0
  ELSE IF StartsWith(lines[i], NAME_PFX) THEN i
  ELSE FindInsertPos(lines, i + 1)

ReqLines == [n \in 1..Len(REQ) |-> FmtKV(REQ[n].k, REQ[n].v)]

\* the header matches 'env:' + at least one whitespace + rest; rest is stripped
MatchInline(line) ==
  IF StartsWith(line, ENV_HDR) /\ Len(line) >= 5 /\ line[5] \in SpaceChars
  THEN [ok |-> TRUE, rest |-> Strip(Tail_(line, SkipSpaces(line, 5)))]
  ELSE [ok |-> FALSE, rest |-> <<>>]

\* the line inserted after the header when the inline form is expanded
InlineLine(rest) ==
  LET p == parse_kv(rest)
  IN IF p.ok THEN FmtKV(p.k, p.v) ELSE <<" ", " ">> \o rest

ExpandInline(lines, env_idx) ==
  LET m == MatchInline(lines[env_idx])
  IN IF m.ok
     THEN SubSeq(lines, 1, env_idx - 1) \o <<ENV_HDR, InlineLine(m.rest)>>
          \o SubSeq(lines, env_idx + 1, Len(lines))
     ELSE lines

RECURSIVE ParseBlock(_, _, _, _)
\* the loop over range(env_idx + 1, end): acc = [order, kv]
ParseBlock(lines, j, end, acc) ==
  IF j >= end THEN acc
  ELSE IF IsCommentLine(lines[j]) \/ IsBlankLine(lines[j])
       THEN ParseBlock(lines, j + 1, end, acc)
       ELSE LET p == parse_kv(lines[j])
            IN IF p.ok /\ p.k \notin DOMAIN acc.kv
               THEN ParseBlock(lines, j + 1, end,
                               [order |-> Append(acc.order, p.k),
                                kv    |-> acc.kv @@ (p.k :> p.v)])
               ELSE ParseBlock(lines, j + 1, end, acc)

RECURSIVE MergeReq(_, _)
\* kv after the loop over REQ: a missing required key gets its REQ value
MergeReq(kv, n) ==
  IF n > Len(REQ) THEN kv
  ELSE IF REQ[n].k \in DOMAIN kv THEN MergeReq(kv, n + 1)
  ELSE MergeReq(kv @@ (REQ[n].k :> REQ[n].v), n + 1)

ReqKeys == [n \in 1..Len(REQ) |-> REQ[n].k]

InSeq(x, s) == \E n \in 1..Len(s) : s[n] = x

RECURSIVE AppendMissing(_, _, _)
\* for k in order: if k not in new_order: new_order.append(k)
AppendMissing(new_order, order, n) ==
  IF n > Len(order) THEN new_order
  ELSE IF InSeq(order[n], new_order) THEN AppendMissing(new_order, order, n + 1)
  ELSE AppendMissing(Append(new_order, order[n]), order, n + 1)

\* NewOrder with the existing keys kept first and only the missing required
\* keys added, after them
NewOrder_KeepExisting(order) == AppendMissing(order, ReqKeys, 1)

NewOrder(order) == AppendMissing(ReqKeys, order, 1)

\* CollectComments keeping the comment lines only, not the blank ones
CollectComments_NoBlank(lines, j, end) ==
  SelectSeq(SubSeq(lines, j, end - 1), IsCommentLine)

RECURSIVE CollectComments(_, _, _)
CollectComments(lines, j, end) ==
  IF j >= end THEN <<>>
  ELSE IF IsCommentLine(lines[j]) \/ IsBlankLine(lines[j])
       THEN <<lines[j]>> \o CollectComments(lines, j + 1, end)
       ELSE CollectComments(lines, j + 1, end)

Rebuild(new_order, kv, comments) ==
  <<ENV_HDR>> \o [n \in 1..Len(new_order) |-> FmtKV(new_order[n], kv[new_order[n]])]
  \o comments

\* nl is a parameter the function never uses
normalize_env(lines0, nl) ==
  LET env_idx == FindEnv(lines0, 1)
  IN IF env_idx = 0
     THEN LET insert_pos == FindInsertPos(lines0, 1)
          IN [changed |-> TRUE,
              lines   |-> SubSeq(lines0, 1, insert_pos) \o <<ENV_HDR>> \o ReqLines
                          \o SubSeq(lines0, insert_pos + 1, Len(lines0))]
     ELSE LET inl      == MatchInline(lines0[env_idx]).ok
              lines    == ExpandInline(lines0, env_idx)
              end      == env_block_bounds(lines, env_idx)
              parsed   == ParseBlock(lines, env_idx + 1, end,
                                     [order |-> <<>>, kv |-> <<>>])
              missing  == \E n \in 1..Len(REQ) : REQ[n].k \notin DOMAIN parsed.kv
              kv       == MergeReq(parsed.kv, 1)
              rebuilt  == Rebuild(NewOrder(parsed.order), kv,
                                  CollectComments(lines, env_idx + 1, end))
              new_lines == SubSeq(lines, 1, env_idx - 1) \o rebuilt
                           \o SubSeq(lines, end, Len(lines))
          IN [changed |-> inl \/ missing \/ new_lines # lines,
              lines   |-> new_lines]

(***************************************************************************)
(* Inputs of the normaliser: documents of at most MaxLines lines drawn     *)
(* from LinePool.                                                          *)
(***************************************************************************)
MaxLines == 3

L_env == ENV_HDR

L_env_inline_kv == <<"e","n","v",":"," ","F","O","O",":"," ","b","a","r">>

L_env_inline_seq == <<"e","n","v",":"," ","-"," ","x">>

L_env_inline_cmt == <<"e","n","v",":"," ","#"," ","c">>

L_name == <<"n","a","m","e",":"," ","x">>

L_on == <<"o","n",":">>

L_foo == <<" "," ","F","O","O",":"," ","b","a","z">>

L_pub == <<" "," ">> \o K_PUB_KEY \o <<":"," ","k">>

L_loose == <<" "," "," "," ","B"," ",":"," "," ","v">>

L_comment == <<"#"," ","c">>

L_blank == <<>>

L_item == <<" "," ","-"," ","x">>

LinePool ==
  {L_env, L_env_inline_kv, L_env_inline_seq, L_env_inline_cmt, L_name, L_on,
   L_foo, L_pub, L_loose, L_comment, L_blank, L_item}

Docs == UNION {[1..n -> LinePool] : n \in 0..MaxLines}

NoResult == [changed |-> FALSE, lines |-> <<>>]

(***************************************************************************)
(* Text files.  A file holds a sequence of characters; read_text and       *)
(* write_text work in text mode with universal newlines: reading turns     *)
(* "\r\n" and a lone "\r" into "\n", writing turns "\n" into os.linesep.   *)
(***************************************************************************)
LF == <<"\n">>

CRLF == <<"\r", "\n">>

RECURSIVE Concat(_)
\* the concatenation of the sequences in ss
Concat(ss) ==
  IF ss = <<>> THEN <<>>
  ELSE IF Len(ss) = 1 THEN ss[1]
  ELSE LET h == Len(ss) \div 2
       IN Concat(SubSeq(ss, 1, h)) \o Concat(SubSeq(ss, h + 1, Len(ss)))

ReadText(bytes) ==
  Concat([i \in 1..Len(bytes) |->
            IF bytes[i] = "\r" THEN LF
            ELSE IF bytes[i] = "\n" /\ i > 1 /\ bytes[i - 1] = "\r" THEN <<>>
            ELSE <<bytes[i]>>])

WriteText(text, sep) ==
  Concat([i \in 1..Len(text) |-> IF text[i] = "\n" THEN sep ELSE <<text[i]>>])

RECURSIVE FindSub(_, _, _)
\* index of the first occurrence of sub in s at or after i, 0 if there is none
FindSub(s, sub, i) ==
  IF i + Len(sub) - 1 > Len(s) THEN 0
  ELSE IF SubSeq(s, i, i + Len(sub) - 1) = sub THEN i
  ELSE FindSub(s, sub, i + 1)

\* "\r\n" if "\r\n" in s else "\n"
detect_nl(s) ==
  IF \E i \in 1..(Len(s) - 1) : s[i] = "\r" /\ s[i + 1] = "\n" THEN CRLF ELSE LF

RECURSIVE Split(_, _)
\* str.split(sep)
Split(s, sep) ==
  LET i == FindSub(s, sep, 1)
  IN IF i = 0 THEN <<s>>
     ELSE <<SubSeq(s, 1, i - 1)>> \o Split(Tail_(s, i + Len(sep)), sep)

RECURSIVE Join(_, _)
\* sep.join(lines)
Join(lines, sep) ==
  IF lines = <<>> THEN <<>>
  ELSE IF Len(lines) = 1 THEN lines[1]
  ELSE lines[1] \o sep \o Join(Tail(lines), sep)

(***************************************************************************)
(* The workflow directory: file names, glob and sorted.                    *)
(***************************************************************************)
MaxStems == 2

Stems == <<"a", "b", "c", "d">>

EXT_YML == <<".", "y", "m", "l">>

EXT_YAML == <<".", "y", "a", "m", "l">>

EXT_BAK == <<".", "b", "a", "k">>

WORKFLOWS_REL == <<".","g","i","t","h","u","b","/","w","o","r","k","f","l","o","w","s","/">>

WorkflowNames ==
  {<<Stems[n]>> \o e : n \in 1..MaxStems, e \in {EXT_YML, EXT_YAML}}

\* p.with_suffix(p.suffix + ".bak")
BakName(name) == name \o EXT_BAK

FileNames == WorkflowNames \cup {BakName(n) : n \in WorkflowNames}

EndsWith(s, e) == Len(s) >= Len(e) /\ SubSeq(s, Len(s) - Len(e) + 1, Len(s)) = e

\* code points of the characters file names are made of
Ord ==
  "." :> 46 @@ "a" :> 97 @@ "b" :> 98 @@ "c" :> 99 @@ "d" :> 100 @@ "k" :> 107
  @@ "l" :> 108 @@ "m" :> 109 @@ "y" :> 121

\* a < b for strings
StrLess(a, b) ==
  \E i \in 1..(Len(b)) :
    /\ \A j \in 1..(i - 1) : j <= Len(a) /\ a[j] = b[j]
    /\ (i > Len(a) \/ Ord[a[i]] < Ord[b[i]])

RECURSIVE Sorted(_)
\* sorted(S)
Sorted(S) ==
  IF S = {} THEN <<>>
  ELSE LET m == CHOOSE x \in S : \A y \in S : x = y \/ StrLess(x, y)
       IN <<m>> \o Sorted(S \ {m})

\* marks a file that does not exist (no text holds a character of that name)
Absent == <<"absent">>

\* WF_DIR.glob("*" + ext) over the directory content d
Glob(d, ext) == {n \in DOMAIN d : d[n] # Absent /\ EndsWith(n, ext)}

\* ListFiles with the two globs concatenated the other way round
ListFiles_YamlFirst(d) == Sorted(Glob(d, EXT_YAML)) \o Sorted(Glob(d, EXT_YML))

\* sorted(WF_DIR.glob("*.yml")) + sorted(WF_DIR.glob("*.yaml"))
ListFiles(d) == Sorted(Glob(d, EXT_YML)) \o Sorted(Glob(d, EXT_YAML))

\* f.relative_to(REPO_ROOT).as_posix()
RelPosix(name) == WORKFLOWS_REL \o name

(***************************************************************************)
(* File contents the sweep is run on.                                      *)
(***************************************************************************)
T_fixed == Join(<<ENV_HDR>> \o ReqLines, LF)

T_crlf == L_env_inline_kv \o CRLF \o L_on

Texts == {T_fixed, T_crlf}

VARIABLES
  npc,   \* "input": nothing applied; "once": normalize_env applied to doc;
         \* "twice": normalize_env applied again, to the lines it returned
  doc,   \* the input document
  res,   \* (changed, lines) of the first application
  res2   \* (changed, lines) of the second application

VARIABLES
  mpc,        \* position of main() in its sweep over the workflow files
  wf_exists,  \* WF_DIR.exists()
  disk,       \* file name -> content of the file, or Absent
  linesep,    \* os.linesep of the platform
  files,      \* main: the list of documents to process
  fi,         \* main: index of the document being processed
  changedL,   \* main: the list named changed
  src,        \* process_one: the text read
  nl,         \* process_one: the detected line ending
  out_lines,  \* process_one: the lines normalize_env returned
  trace,      \* the file operations performed and the values process_one returned
  stdout      \* what main printed

VARIABLES
  gpc,        \* position of main() in the submodule steps
  gm_path,    \* what parse_gitmodules_for_hbb_common returns ("" for None)
  sub_exists, \* whether the submodule directory exists
  glog,       \* the git commands run: operation, command, exit status
  branch,     \* update_and_stage_submodule_pointer: the branch resolved
  switched,   \* what switch_hbb_common_submodule returned ("none" before)
  staged      \* what update_and_stage_submodule_pointer returned ("none" before)

normVars == <<npc, doc, res, res2>>

mainVars == <<mpc, wf_exists, disk, linesep, files, fi, changedL, src, nl,
              out_lines, trace, stdout>>

gitVars == <<gpc, gm_path, sub_exists, glog, branch, switched, staged>>

vars == <<normVars, mainVars, gitVars>>

NormIdle == npc = "off" /\ doc = <<>> /\ res = NoResult /\ res2 = NoResult

MainIdle ==
  /\ mpc = "off" /\ wf_exists = FALSE /\ disk = <<>> /\ linesep = LF
  /\ files = <<>> /\ fi = 0 /\ changedL = <<>> /\ src = <<>> /\ nl = LF
  /\ out_lines = <<>> /\ trace = <<>> /\ stdout = <<>>

GitIdle ==
  /\ gpc = "off" /\ gm_path = "" /\ sub_exists = FALSE /\ glog = <<>>
  /\ branch = <<>> /\ switched = "none" /\ staged = "none"

(***************************************************************************)
(* normalize_env applied to a document, then to its own result.            *)
(***************************************************************************)
InitNormalize ==
  /\ npc = "input"
  /\ doc \in Docs
  /\ res = NoResult
  /\ res2 = NoResult
  /\ MainIdle /\ GitIdle

Normalize ==
  /\ npc = "input"
  /\ res' = normalize_env(doc, LF)
  /\ npc' = "once"
  /\ UNCHANGED <<doc, res2, mainVars, gitVars>>

Renormalize ==
  /\ npc = "once"
  /\ res2' = normalize_env(res.lines, LF)
  /\ npc' = "twice"
  /\ UNCHANGED <<doc, res, mainVars, gitVars>>

NextNormalize == Normalize \/ Renormalize

SpecNormalize == InitNormalize /\ [][NextNormalize]_vars

(***************************************************************************)
(* main(): the sweep over the workflow documents, with process_one.        *)
(* A failing file operation raises; nothing in main catches it.            *)
(***************************************************************************)
InitMain ==
  /\ mpc = "start"
  /\ wf_exists \in BOOLEAN
  /\ disk \in [FileNames -> Texts \cup {Absent}]
  /\ \A n \in FileNames :
       \* backups are left by earlier runs: here at most one, of a.yml
       /\ ~wf_exists => disk[n] = Absent
       /\ EndsWith(n, EXT_BAK) =>
            \/ disk[n] = Absent
            \/ n = BakName(<<"a">> \o EXT_YML) /\ disk[n] = T_crlf
  /\ linesep \in {LF, CRLF}
  /\ files = <<>> /\ fi = 0 /\ changedL = <<>>
  /\ src = <<>> /\ nl = LF /\ out_lines = <<>>
  /\ trace = <<>> /\ stdout = <<>>
  /\ NormIdle /\ GitIdle

Ev(op, path, ok, data) == [op |-> op, path |-> path, ok |-> ok, data |-> data]

\* if not WF_DIR.exists(): print skip; return
MainSkip ==
  /\ mpc = "start" /\ ~wf_exists
  /\ stdout' = Append(stdout, [msg |-> "skip", n |-> 0])
  /\ mpc' = "returned"
  /\ UNCHANGED <<wf_exists, disk, linesep, files, fi, changedL, src, nl,
                 out_lines, trace, normVars, gitVars>>

\* changed = []; files = sorted(...) + sorted(...)
MainList ==
  /\ mpc = "start" /\ wf_exists
  /\ files' = ListFiles(disk)
  /\ fi' = 1
  /\ changedL' = <<>>
  /\ mpc' = "loop"
  /\ UNCHANGED <<wf_exists, disk, linesep, src, nl, out_lines, trace, stdout,
                 normVars, gitVars>>

\* process_one up to its decision: read, detect_nl, split, normalize_env;
\* returns False when nothing changed
ProcRead ==
  /\ mpc = "loop" /\ fi <= Len(files)
  /\ disk[files[fi]] # Absent
  /\ LET text == ReadText(disk[files[fi]])
         sep  == detect_nl(text)
         r    == normalize_env(Split(text, sep), sep)
     IN /\ src' = text
        /\ nl' = sep
        /\ out_lines' = r.lines
        /\ IF r.changed
           THEN /\ mpc' = "backup"
                /\ fi' = fi
                /\ trace' = Append(trace, Ev("read", files[fi], TRUE, text))
           ELSE /\ mpc' = "loop"
                /\ fi' = fi + 1
                /\ trace' = trace \o <<Ev("read", files[fi], TRUE, text),
                                       Ev("return", files[fi], FALSE, <<>>)>>
  /\ UNCHANGED <<wf_exists, disk, linesep, files, changedL, stdout,
                 normVars, gitVars>>

\* p.read_text raises
ProcReadFail ==
  /\ mpc = "loop" /\ fi <= Len(files)
  /\ trace' = Append(trace, Ev("read", files[fi], FALSE, <<>>))
  /\ mpc' = "raised"
  /\ UNCHANGED <<wf_exists, disk, linesep, files, fi, changedL, src, nl,
                 out_lines, stdout, normVars, gitVars>>

\* ProcBackup with the backup written from the new lines instead of the text read
ProcBackup_NewContent ==
  /\ mpc = "backup"
  /\ disk' = [disk EXCEPT ![BakName(files[fi])] =
                            WriteText(Join(out_lines, nl), linesep)]
  /\ trace' = Append(trace, Ev("write", BakName(files[fi]), TRUE,
                               Join(out_lines, nl)))
  /\ mpc' = "overwrite"
  /\ UNCHANGED <<wf_exists, linesep, files, fi, changedL, src, nl, out_lines,
                 stdout, normVars, gitVars>>

\* p.with_suffix(p.suffix + ".bak").write_text(src)
ProcBackup ==
  /\ mpc = "backup"
  /\ disk' = [disk EXCEPT ![BakName(files[fi])] = WriteText(src, linesep)]
  /\ trace' = Append(trace, Ev("write", BakName(files[fi]), TRUE, src))
  /\ mpc' = "overwrite"
  /\ UNCHANGED <<wf_exists, linesep, files, fi, changedL, src, nl, out_lines,
                 stdout, normVars, gitVars>>

\* the backup write raises: the file is untouched, or created/truncated empty
ProcBackupFail ==
  /\ mpc = "backup"
  /\ \E c \in {disk[BakName(files[fi])], <<>>} :
       disk' = [disk EXCEPT ![BakName(files[fi])] = c]
  /\ trace' = Append(trace, Ev("write", BakName(files[fi]), FALSE, <<>>))
  /\ mpc' = "raised"
  /\ UNCHANGED <<wf_exists, linesep, files, fi, changedL, src, nl, out_lines,
                 stdout, normVars, gitVars>>

\* p.write_text(nl.join(out_lines)); return True; main appends to changed
ProcOverwrite ==
  /\ mpc = "overwrite"
  /\ disk' = [disk EXCEPT ![files[fi]] = WriteText(Join(out_lines, nl), linesep)]
  /\ trace' = trace \o <<Ev("write", files[fi], TRUE, Join(out_lines, nl)),
                         Ev("return", files[fi], TRUE, <<>>)>>
  /\ changedL' = Append(changedL, RelPosix(files[fi]))
  /\ fi' = fi + 1
  /\ mpc' = "loop"
  /\ UNCHANGED <<wf_exists, linesep, files, src, nl, out_lines, stdout,
                 normVars, gitVars>>

\* the overwrite raises: the document is untouched or truncated empty
ProcOverwriteFail ==
  /\ mpc = "overwrite"
  /\ \E c \in {disk[files[fi]], <<>>} :
       disk' = [disk EXCEPT ![files[fi]] = c]
  /\ trace' = Append(trace, Ev("write", files[fi], FALSE, <<>>))
  /\ mpc' = "raised"
  /\ UNCHANGED <<wf_exists, linesep, files, fi, changedL, src, nl, out_lines,
                 stdout, normVars, gitVars>>

\* the prints after the loop
MainSummary ==
  /\ mpc = "loop" /\ fi > Len(files)
  /\ stdout' = stdout
       \o (IF changedL # <<>>
           THEN <<[msg |-> "updated", n |-> Len(changedL)]>>
           ELSE <<[msg |-> "none", n |-> 0]>>)
       \o <<[msg |-> "total", n |-> Len(changedL)]>>
  /\ mpc' = "swept"
  /\ UNCHANGED <<wf_exists, disk, linesep, files, fi, changedL, src, nl,
                 out_lines, trace, normVars, gitVars>>

NextMain ==
  \/ MainSkip \/ MainList
  \/ ProcRead \/ ProcReadFail
  \/ ProcBackup \/ ProcBackupFail
  \/ ProcOverwrite \/ ProcOverwriteFail
  \/ MainSummary

SpecMain == InitMain /\ [][NextMain]_vars

(***************************************************************************)
(* main(): the submodule steps, switch_hbb_common_submodule followed by    *)
(* update_and_stage_submodule_pointer.  Every git command is a run_cmd     *)
(* call whose exit status and output are chosen by the environment.        *)
(***************************************************************************)
ExitCodes == {0, 1}

DEFAULT_SUB_PATH == "libs/hbb_common"

\* results of parse_gitmodules_for_hbb_common; "" stands for None
GmPaths == {"", "libs/hbb_common", "vendor/common"}

ORIGIN_PFX == <<"o","r","i","g","i","n","/">>

\* outputs of git rev-parse --abbrev-ref origin/HEAD
HeadRefs ==
  { ORIGIN_PFX \o <<"d","e","v">>, ORIGIN_PFX, <<"H","E","A","D">> }

B_main == <<"m","a","i","n">>

B_master == <<"m","a","s","t","e","r">>

\* parse_gitmodules_for_hbb_common(repo_root) or "libs/hbb_common"
SubPath == IF gm_path = "" THEN DEFAULT_SUB_PATH ELSE gm_path

\* head_ref.split("/", 1)[1]
AfterSlash(ref) == Tail_(ref, FindSub(ref, <<"/">>, 1) + 1)

Cmd(op, cmd, arg, code) == [op |-> op, cmd |-> cmd, arg |-> arg, code |-> code]

InitGit ==
  /\ gpc = "sw_seturl"
  /\ gm_path \in GmPaths
  /\ sub_exists \in BOOLEAN
  /\ glog = <<>>
  /\ branch = <<>>
  /\ switched = "none"
  /\ staged = "none"
  /\ NormIdle /\ MainIdle

\* git submodule set-url <sub_path> <new_url>
SwSetUrl ==
  /\ gpc = "sw_seturl"
  /\ \E code \in ExitCodes :
       /\ glog' = Append(glog, Cmd("switch", "set-url", SubPath, code))
       /\ IF code # 0
          THEN switched' = "False" /\ gpc' = "up_dir"
          ELSE switched' = switched /\ gpc' = "sw_sync"
  /\ UNCHANGED <<gm_path, sub_exists, branch, staged, normVars, mainVars>>

\* git submodule sync --recursive
SwSync ==
  /\ gpc = "sw_sync"
  /\ \E code \in ExitCodes :
       /\ glog' = Append(glog, Cmd("switch", "sync", "", code))
       /\ IF code # 0
          THEN switched' = "False" /\ gpc' = "up_dir"
          ELSE switched' = switched /\ gpc' = "sw_update"
  /\ UNCHANGED <<gm_path, sub_exists, branch, staged, normVars, mainVars>>

\* git submodule update --init --recursive; return True
SwUpdate ==
  /\ gpc = "sw_update"
  /\ \E code \in ExitCodes :
       /\ glog' = Append(glog, Cmd("switch", "update", "", code))
       /\ switched' = (IF code = 0 THEN "True" ELSE "False")
       /\ gpc' = "up_dir"
  /\ UNCHANGED <<gm_path, sub_exists, branch, staged, normVars, mainVars>>

\* if not sub_dir.exists(): return False
UpCheckDir ==
  /\ gpc = "up_dir"
  /\ IF sub_exists
     THEN staged' = staged /\ gpc' = "up_fetch"
     ELSE staged' = "False" /\ gpc' = "done"
  /\ UNCHANGED <<gm_path, sub_exists, glog, branch, switched, normVars, mainVars>>

\* UpFetch without the check of the exit status
UpFetch_Unchecked ==
  /\ gpc = "up_fetch"
  /\ \E code \in ExitCodes :
       /\ glog' = Append(glog, Cmd("stage", "fetch", "", code))
       /\ staged' = staged /\ gpc' = "up_resolve"
  /\ UNCHANGED <<gm_path, sub_exists, branch, switched, normVars, mainVars>>

\* git fetch --prune --tags origin
UpFetch ==
  /\ gpc = "up_fetch"
  /\ \E code \in ExitCodes :
       /\ glog' = Append(glog, Cmd("stage", "fetch", "", code))
       /\ IF code # 0
          THEN staged' = "False" /\ gpc' = "done"
          ELSE staged' = staged /\ gpc' = "up_resolve"
  /\ UNCHANGED <<gm_path, sub_exists, branch, switched, normVars, mainVars>>

\* git rev-parse --abbrev-ref origin/HEAD; an origin/<branch> answer names the
\* branch (an empty name fails the operation); anything else falls back to
\* the probes
UpResolve ==
  /\ gpc = "up_resolve"
  /\ \E code \in ExitCodes, head_ref \in HeadRefs :
       /\ glog' = Append(glog, Cmd("stage", "resolve", head_ref, code))
       /\ IF code = 0 /\ StartsWith(head_ref, ORIGIN_PFX)
          THEN /\ branch' = AfterSlash(head_ref)
               /\ IF AfterSlash(head_ref) = <<>>
                  THEN staged' = "False" /\ gpc' = "done"
                  ELSE staged' = staged /\ gpc' = "up_checkout"
          ELSE /\ branch' = branch
               /\ staged' = staged
               /\ gpc' = "up_main"
  /\ UNCHANGED <<gm_path, sub_exists, switched, normVars, mainVars>>

\* git rev-parse --verify origin/main
UpProbeMain ==
  /\ gpc = "up_main"
  /\ \E code2 \in ExitCodes :
       /\ glog' = Append(glog, Cmd("stage", "probe-main", "", code2))
       /\ IF code2 = 0
          THEN branch' = B_main /\ gpc' = "up_checkout"
          ELSE branch' = branch /\ gpc' = "up_master"
  /\ UNCHANGED <<gm_path, sub_exists, switched, staged, normVars, mainVars>>

\* git rev-parse --verify origin/master; no branch found: return False
UpProbeMaster ==
  /\ gpc = "up_master"
  /\ \E code2 \in ExitCodes :
       /\ glog' = Append(glog, Cmd("stage", "probe-master", "", code2))
       /\ IF code2 = 0
          THEN branch' = B_master /\ staged' = staged /\ gpc' = "up_checkout"
          ELSE branch' = branch /\ staged' = "False" /\ gpc' = "done"
  /\ UNCHANGED <<gm_path, sub_exists, switched, normVars, mainVars>>

\* git checkout -B <branch> origin/<branch>
UpCheckout ==
  /\ gpc = "up_checkout"
  /\ \E code \in ExitCodes :
       /\ glog' = Append(glog, Cmd("stage", "checkout", branch, code))
       /\ IF code # 0
          THEN staged' = "False" /\ gpc' = "done"
          ELSE staged' = staged /\ gpc' = "up_head"
  /\ UNCHANGED <<gm_path, sub_exists, branch, switched, normVars, mainVars>>

\* git rev-parse HEAD
UpReadHead ==
  /\ gpc = "up_head"
  /\ \E code \in ExitCodes :
       /\ glog' = Append(glog, Cmd("stage", "read-head", "", code))
       /\ IF code # 0
          THEN staged' = "False" /\ gpc' = "done"
          ELSE staged' = staged /\ gpc' = "up_add"
  /\ UNCHANGED <<gm_path, sub_exists, branch, switched, normVars, mainVars>>

\* git add <sub_path> .gitmodules; return True
UpStage ==
  /\ gpc = "up_add"
  /\ \E code \in ExitCodes :
       /\ glog' = Append(glog, Cmd("stage", "add", SubPath, code))
       /\ staged' = (IF code = 0 THEN "True" ELSE "False")
       /\ gpc' = "done"
  /\ UNCHANGED <<gm_path, sub_exists, branch, switched, normVars, mainVars>>

NextGit ==
  \/ SwSetUrl \/ SwSync \/ SwUpdate
  \/ UpCheckDir \/ UpFetch \/ UpResolve \/ UpProbeMain \/ UpProbeMaster
  \/ UpCheckout \/ UpReadHead \/ UpStage

SpecGit == InitGit /\ [][NextGit]_vars

(***************************************************************************)
(* Vocabulary of the properties of normalize_env.                          *)
(***************************************************************************)
IsHeader(l) == StartsWith(l, ENV_HDR)

HasHeader(d) == \E i \in 1..Len(d) : IsHeader(d[i])

\* index of the first header line of d
HeaderOf(d) ==
  CHOOSE i \in 1..Len(d) : IsHeader(d[i]) /\ \A j \in 1..(i - 1) : ~IsHeader(d[j])

IsCommentOrBlank(l) == IsBlankLine(l) \/ IsCommentLine(l)

BelongsToBlock(l) == IsIndented(l) \/ IsCommentOrBlank(l)

\* the lines of d between its header and the end of its block
BlockBody(d) ==
  LET h == HeaderOf(d)
      e == CHOOSE x \in (h + 1)..(Len(d) + 1) :
             /\ \A j \in (h + 1)..(x - 1) : BelongsToBlock(d[j])
             /\ (x = Len(d) + 1 \/ ~BelongsToBlock(d[x]))
  IN SubSeq(d, h + 1, e - 1)

IsInlineHeader(l) == IsHeader(l) /\ Len(l) >= 5 /\ l[5] \in SpaceChars

InlineRest(l) == Strip(Tail_(l, 5))

\* the subsequence of s at the positions in the index set S
Pick(s, S) ==
  [n \in 1..Cardinality(S) |->
     s[CHOOSE i \in S : Cardinality({j \in S : j < i}) = n - 1]]

\* the key/value entries a document with a header carries, in input order:
\* the entry on an inline header first, then the entries of the block body
InputEntries(d) ==
  LET hl   == d[HeaderOf(d)]
      head == IF IsInlineHeader(hl) /\ parse_kv(InlineRest(hl)).ok
              THEN <<parse_kv(InlineRest(hl))>> ELSE <<>>
      body == BlockBody(d)
      ents == [i \in 1..Len(body) |-> parse_kv(body[i])]
  IN head \o Pick(ents, {i \in 1..Len(body) : ents[i].ok})

IsFirstOccurrence(ents, i) == \A j \in 1..(i - 1) : ents[j].k # ents[i].k

RequiredKeySet == {K_PUB_KEY, K_SERVERS, K_API_SERVERS}

\* the key lines the output block starts with
OutKeyLines(d) ==
  LET body == BlockBody(d)
  IN Pick(body, {i \in 1..Len(body) : ~IsCommentOrBlank(body[i])})

\* C1: applying normalize_env to the lines it returned reports changed = false
\* and returns the same lines.
C1_Idempotent ==
  npc = "twice" => (res2.changed = FALSE /\ res2.lines = res.lines)

\* C2: the env block of the output holds every required key exactly once, with
\* the value of its first occurrence in the input if the input block had the
\* key, and with the REQ value otherwise.
C2_RequiredKeys ==
  npc # "input" =>
    \A n \in 1..Len(REQ) :
      LET body == BlockBody(res.lines)
          occ  == {i \in 1..Len(body) :
                     parse_kv(body[i]).ok /\ parse_kv(body[i]).k = REQ[n].k}
          ents == IF HasHeader(doc) THEN InputEntries(doc) ELSE <<>>
          had  == {i \in 1..Len(ents) :
                     ents[i].k = REQ[n].k /\ IsFirstOccurrence(ents, i)}
      IN /\ Cardinality(occ) = 1
         /\ \A i \in occ :
              parse_kv(body[i]).v =
                (IF had = {} THEN REQ[n].v ELSE ents[CHOOSE x \in had : TRUE].v)

\* C3: the blank and comment lines of the input block are the last lines of
\* the output block, after all its key lines, unaltered and in their input
\* order, preceded only by the line an inline header expands to when that
\* line is itself blank or a comment.
C3_CommentsPreserved ==
  (npc # "input" /\ HasHeader(doc)) =>
    LET inC   == SelectSeq(BlockBody(doc), IsCommentOrBlank)
        hl    == doc[HeaderOf(doc)]
        extra == IF IsInlineHeader(hl) /\ IsCommentOrBlank(InlineRest(hl))
                 THEN << <<" ", " ">> \o InlineRest(hl) >> ELSE <<>>
        body  == BlockBody(res.lines)
        nkeys == Cardinality({i \in 1..Len(body) : ~IsCommentOrBlank(body[i])})
    IN /\ \A i \in 1..nkeys : ~IsCommentOrBlank(body[i])
       /\ SubSeq(body, nkeys + 1, Len(body)) = extra \o inC

C3_Witness ==
  /\ npc = "once" /\ HasHeader(doc)
  /\ LET body == BlockBody(doc)
     IN \E i, j \in 1..Len(body) :
          i < j /\ IsCommentOrBlank(body[i]) /\ parse_kv(body[j]).ok

\* C4: without a header line, the result is changed = true and the input with
\* the block env: + one line per required key inserted after the first line
\* that starts with name: (at the top when there is none), every input line
\* kept in place around it.
C4_ExpectedBlock ==
  << <<"e","n","v",":">>,
     <<" "," ","P","U","B","_","K","E","Y",":"," ","$","{","{"," ",
       "s","e","c","r","e","t","s",".","P","U","B","_","K","E","Y"," ","}","}">>,
     <<" "," ","S","E","R","V","E","R","S",":"," ","$","{","{"," ",
       "v","a","r","s",".","S","E","R","V","E","R","S"," ","}","}">>,
     <<" "," ","A","P","I","_","S","E","R","V","E","R","S",":"," ","$","{","{"," ",
       "v","a","r","s",".","A","P","I","_","S","E","R","V","E","R","S"," ","}","}">> >>

C4_NoBlockInsert ==
  (npc # "input" /\ ~HasHeader(doc)) =>
    LET names == {i \in 1..Len(doc) : StartsWith(doc[i], NAME_PFX)}
        p     == IF names = {} THEN 0
                 ELSE CHOOSE i \in names : \A j \in names : i <= j
    IN /\ res.changed = TRUE
       /\ res.lines = SubSeq(doc, 1, p) \o C4_ExpectedBlock
                      \o SubSeq(doc, p + 1, Len(doc))

C4_Witness ==
  /\ npc = "once" /\ ~HasHeader(doc)
  /\ Len(doc) = 3 /\ StartsWith(doc[2], NAME_PFX) /\ ~StartsWith(doc[1], NAME_PFX)
  /\ Len(res.lines) = 7 /\ res.lines[3] = ENV_HDR

\* C5: an inline header env: <rest> always gives changed = true, a bare env:
\* header, and a block that holds <rest> as the line '  key: value' when
\* <rest> parses as key: value and as '  <rest>' otherwise.
C5_InlineExpansion ==
  (npc # "input" /\ HasHeader(doc) /\ IsInlineHeader(doc[HeaderOf(doc)])) =>
    LET h    == HeaderOf(doc)
        rest == InlineRest(doc[h])
        p    == parse_kv(rest)
        want == IF p.ok THEN <<" ", " ">> \o p.k \o <<":", " ">> \o p.v
                ELSE <<" ", " ">> \o rest
    IN /\ res.changed = TRUE
       /\ res.lines[h] = ENV_HDR
       /\ InSeq(want, BlockBody(res.lines))

\* C8: for an input with a header, the key lines of the output block are the
\* required keys in REQ order followed by the other keys of the input block,
\* each once, in the order of their first occurrences.
C8_KeyOrder ==
  (npc # "input" /\ HasHeader(doc)) =>
    LET ents  == InputEntries(doc)
        first == {i \in 1..Len(ents) :
                    ents[i].k \notin RequiredKeySet /\ IsFirstOccurrence(ents, i)}
        other == Pick(ents, first)
        keyls == OutKeyLines(res.lines)
    IN /\ Len(keyls) = 3 + Len(other)
       /\ \A n \in 1..Len(keyls) : parse_kv(keyls[n]).ok
       /\ [n \in 1..Len(keyls) |-> parse_kv(keyls[n]).k]
            = <<K_PUB_KEY, K_SERVERS, K_API_SERVERS>>
              \o [n \in 1..Len(other) |-> other[n].k]
       /\ SubSeq(BlockBody(res.lines), 1, Len(keyls)) = keyls

C8_Witness ==
  /\ npc = "once" /\ HasHeader(doc)
  /\ LET ents == InputEntries(doc)
     IN /\ \E i, j \in 1..Len(ents) : i < j /\ ents[i].k = ents[j].k
        /\ \E i, j \in 1..Len(ents) :
             /\ i < j /\ ents[i].k # ents[j].k
             /\ ents[i].k \notin RequiredKeySet /\ ents[j].k \notin RequiredKeySet

(***************************************************************************)
(* Vocabulary of the properties of the sweep.                              *)
(***************************************************************************)
Events(op) == {i \in 1..Len(trace) : trace[i].op = op}

IsDocument(path) == path \in WorkflowNames

\* the document a path belongs to: itself, or the document a backup is of
DocumentOf(path) ==
  IF EndsWith(path, EXT_BAK) THEN SubSeq(path, 1, Len(path) - Len(EXT_BAK))
  ELSE path

IndexIn(s, x) == CHOOSE n \in 1..Len(s) : s[n] = x

ExistingDocuments == {n \in WorkflowNames : disk[n] # Absent}

ReturnedTrue(f) ==
  \E i \in Events("return") : trace[i].path = f /\ trace[i].ok

\* one document at a time, in the order of the list, each read once
ProcessedInListOrder ==
  /\ \A i \in 1..Len(trace) : InSeq(DocumentOf(trace[i].path), files)
  /\ \A i, j \in 1..Len(trace) :
       i < j => IndexIn(files, DocumentOf(trace[i].path))
                  <= IndexIn(files, DocumentOf(trace[j].path))
  /\ \A n \in 1..Len(files) :
       Cardinality({i \in Events("read") : trace[i].path = files[n]}) <= 1
  /\ mpc = "swept" =>
       \A n \in 1..Len(files) :
         Cardinality({i \in Events("read") : trace[i].path = files[n]}) = 1

\* the list named changed is the documents process_one returned true for
ChangedIsModifiedSubset ==
  LET done == Pick(files, {n \in 1..Len(files) : ReturnedTrue(files[n])})
  IN changedL = [n \in 1..Len(done) |-> WORKFLOWS_REL \o done[n]]

ListHoldsEveryDocumentOnce ==
  /\ {files[n] : n \in 1..Len(files)} = ExistingDocuments
  /\ Len(files) = Cardinality(ExistingDocuments)

\* C6: process_one writes nothing when normalize_env reports no change and
\* returns false; otherwise the backup is written first, with the text as
\* read, the document is overwritten only after that, with the new lines
\* joined by the detected line ending, and true is returned.
C6_BackupThenOverwrite ==
  \A i \in 1..Len(trace) :
    LET e == trace[i]
    IN /\ (e.op = "return" /\ ~e.ok) =>
            /\ \A j \in Events("write") :
                 trace[j].path \notin {e.path, BakName(e.path)}
            /\ \E r \in Events("read") :
                 /\ trace[r].path = e.path /\ trace[r].ok
                 /\ ~normalize_env(Split(trace[r].data, detect_nl(trace[r].data)),
                                   detect_nl(trace[r].data)).changed
       /\ (e.op = "write" /\ IsDocument(e.path)) =>
            \E r, b \in 1..(i - 1) :
              /\ r < b
              /\ trace[r].op = "read" /\ trace[r].path = e.path /\ trace[r].ok
              /\ trace[b].op = "write" /\ trace[b].path = BakName(e.path)
              /\ trace[b].ok /\ trace[b].data = trace[r].data
              /\ ReadText(disk[BakName(e.path)]) = trace[r].data
              /\ e.ok =>
                   LET t  == trace[r].data
                       nr == normalize_env(Split(t, detect_nl(t)), detect_nl(t))
                   IN /\ nr.changed
                      /\ e.data = Join(nr.lines, detect_nl(t))
                      /\ disk[e.path] = WriteText(e.data, linesep)
       /\ (e.op = "return" /\ e.ok) =>
            /\ i > 1
            /\ trace[i - 1].op = "write" /\ trace[i - 1].path = e.path
            /\ trace[i - 1].ok

C6_Witness ==
  /\ mpc = "swept"
  /\ \E i, j \in Events("return") : trace[i].ok /\ ~trace[j].ok
  /\ \E i \in Events("write") : IsDocument(trace[i].path) /\ trace[i].ok

\* C7: whatever file operation fails on one document, the sweep ends with
\* every document of the list processed and the final count printed.
C7_FailureIsolation ==
  mpc \in {"swept", "raised"} =>
    /\ \A n \in 1..Len(files) :
         \E i \in Events("read") : trace[i].path = files[n]
    /\ \E k \in 1..Len(stdout) : stdout[k].msg = "total"

\* C10 as claimed: the documents of both extensions are processed in sorted
\* order over the whole set, each once, one at a time, and the list of
\* modified documents is the subset process_one returned true for, in order.
C10_SortedOverWholeSet ==
  mpc \notin {"start", "returned"} =>
    /\ ListHoldsEveryDocumentOnce
    /\ \A i, j \in 1..Len(files) : i < j => StrLess(files[i], files[j])
    /\ ProcessedInListOrder
    /\ ChangedIsModifiedSubset

\* C10 amended: the list is the .yml documents in sorted order followed by the
\* .yaml documents in sorted order; the documents are processed in the order
\* of that list, each once, one at a time, and the list of modified documents
\* is the subset process_one returned true for, in that order.
C10_BatchOrder ==
  mpc \notin {"start", "returned"} =>
    /\ ListHoldsEveryDocumentOnce
    /\ \A i, j \in 1..Len(files) :
         i < j =>
           \/ EndsWith(files[i], EXT_YML) /\ EndsWith(files[j], EXT_YAML)
           \/ /\ EndsWith(files[i], EXT_YML) <=> EndsWith(files[j], EXT_YML)
              /\ StrLess(files[i], files[j])
    /\ ProcessedInListOrder
    /\ ChangedIsModifiedSubset

C10_Witness ==
  /\ mpc = "swept"
  /\ Len(files) >= 3
  /\ \E i, j \in 1..Len(files) :
       i < j /\ EndsWith(files[i], EXT_YML) /\ EndsWith(files[j], EXT_YAML)
       /\ StrLess(files[j], files[i])
  /\ \E n, m \in 1..Len(files) : ReturnedTrue(files[n]) /\ ~ReturnedTrue(files[m])
  /\ Len(changedL) >= 2

(***************************************************************************)
(* Vocabulary of the properties of the git command chains.                 *)
(***************************************************************************)
CommandsOf(op) == SelectSeq(glog, LAMBDA c : c.op = op)

SwitchChain == <<"set-url", "sync", "update">>

StageRank ==
  "fetch" :> 1 @@ "resolve" :> 2 @@ "probe-main" :> 3 @@ "probe-master" :> 4
  @@ "checkout" :> 5 @@ "read-head" :> 6 @@ "add" :> 7

ResolutionCommands == {"resolve", "probe-main", "probe-master"}

\* the commands that may directly follow a command with the given status
MayFollow(cmd, code) ==
  IF cmd = "fetch" /\ code = 0 THEN {"resolve"}
  ELSE IF cmd = "resolve" /\ code = 0 THEN {"checkout", "probe-main"}
  ELSE IF cmd = "resolve" THEN {"probe-main"}
  ELSE IF cmd = "probe-main" /\ code = 0 THEN {"checkout"}
  ELSE IF cmd = "probe-main" THEN {"probe-master"}
  ELSE IF cmd = "probe-master" /\ code = 0 THEN {"checkout"}
  ELSE IF cmd = "checkout" /\ code = 0 THEN {"read-head"}
  ELSE IF cmd = "read-head" /\ code = 0 THEN {"add"}
  ELSE {}

\* C9: each chain runs its commands in order, a command only after the
\* earlier ones returned 0 (the branch resolution alone may fall back to
\* probing main, then master); the first failure ends the operation with
\* result false, nothing is retried, and the result is true only if every
\* step succeeded.
C9_AbortOnFailure ==
  LET sw == CommandsOf("switch")
      st == CommandsOf("stage")
  IN /\ Len(sw) <= 3
     /\ \A i \in 1..Len(sw) : sw[i].cmd = SwitchChain[i]
     /\ \A i \in 1..(Len(sw) - 1) : sw[i].code = 0
     /\ (\E i \in 1..Len(sw) : sw[i].code # 0) => switched = "False"
     /\ switched = "True" => (Len(sw) = 3 /\ \A i \in 1..3 : sw[i].code = 0)
     /\ switched = "False" => (sw # <<>> /\ sw[Len(sw)].code # 0)
     /\ st # <<>> => st[1].cmd = "fetch"
     /\ \A i, j \in 1..Len(st) :
          i < j => StageRank[st[i].cmd] < StageRank[st[j].cmd]
     /\ \A i \in 1..(Len(st) - 1) :
          /\ st[i + 1].cmd \in MayFollow(st[i].cmd, st[i].code)
          /\ st[i].code = 0 \/ st[i].cmd \in {"resolve", "probe-main"}
     /\ (\E i \in 1..Len(st) :
           st[i].code # 0 /\ st[i].cmd \notin {"resolve", "probe-main"})
          => staged = "False"
     /\ staged = "True" =>
          /\ \A c \in {"fetch", "checkout", "read-head", "add"} :
               \E i \in 1..Len(st) : st[i].cmd = c /\ st[i].code = 0
          /\ \E i \in 1..Len(st) :
               st[i].cmd \in ResolutionCommands /\ st[i].code = 0
     /\ gpc = "done" => (switched \in {"True", "False"} /\ staged \in {"True", "False"})
     \* the two operations do not interleave
     /\ \A i, j \in 1..Len(glog) :
          (glog[i].op = "stage" /\ glog[j].op = "switch") => j < i

C9_Witness ==
  /\ gpc = "done" /\ switched = "False" /\ staged = "False"
  /\ LET sw == CommandsOf("switch")
         st == CommandsOf("stage")
     IN /\ Len(sw) = 2
        /\ \E i \in 1..Len(st) : st[i].cmd = "probe-master" /\ st[i].code = 0
        /\ st[Len(st)].cmd = "read-head" /\ st[Len(st)].code # 0

====
